---- MODULE Spec2Model ----
(***************************************************************************)
(* Model of the editing session kept by ImageProcessor                     *)
(* (src/image_processor.py): the original and current pixel buffers, the  *)
(* image path, the undo/redo history and its cursor, and every public     *)
(* method as one action.                                                   *)
(*                                                                         *)
(* A pixel buffer is a sequence of rows, a row a sequence of pixels, and a *)
(* pixel a triple <<r, g, b>> of samples in 0..255, so shape[0] is the      *)
(* number of rows and shape[1] the length of a row.  Python's None is the  *)
(* empty sequence of rows.  Buffers are values, so copy.deepcopy yields an *)
(* equal value.                                                            *)
(***************************************************************************)
EXTENDS Integers, Sequences, FiniteSets, TLC

(***************************************************************************)
(* Bounds of the model.                                                    *)
(***************************************************************************)
\* Longest history sequence explored.  A snapshot at position k of the
\* history is at most k edits away from the loaded buffer, so this also
\* bounds the buffers the model reaches.
MaxHist == 3

\* The longest run of one and the same call in the inverse-pair runs
MaxApply == 4

\* The blur intensities tried are -MaxIntensity..MaxIntensity
MaxIntensity == 6

\* The longest side, in pixels, of the buffers drawn for the inverse-pair runs
MaxSide == 2

(***************************************************************************)
(* Values.                                                                 *)
(***************************************************************************)
None == <<>>
NoPath == "None"

Min(a, b) == IF a <= b THEN a ELSE b
Max(a, b) == IF a >= b THEN a ELSE b

Rows(img) == Len(img)
Cols(img) == Len(img[1])

\* The files a caller can name: two decodable images and a path that
\* cv2.imread cannot decode (it returns None for it).
RedGrey == << << <<200, 0, 0>>, <<100, 100, 100>> >> >>
GreyColumn == << << <<50, 50, 50>> >>, << <<50, 50, 50>> >> >>
\* black.png: 4 x 4 pixels, all black
Black4 == [i \in 1..4 |-> [j \in 1..4 |-> <<0, 0, 0>>]]

LoadPaths == {"a.png", "b.png", "black.png", "missing.png"}

\* cv2.imread followed by cv2.cvtColor(image, cv2.COLOR_BGR2RGB)
Decode(p) ==
    CASE p = "a.png" -> RedGrey
      [] p = "b.png" -> GreyColumn
      [] p = "black.png" -> Black4
      [] OTHER -> None

\* Destinations of save_image: cv2.imwrite writes the first, returns False
\* for the second (the directory cannot be written) and raises for the
\* third (no encoder for the extension).
SavePaths == {"out.png", "/readonly/out.png", "out.xyz"}
ImwriteRaises(p) == p = "out.xyz"
ImwriteWrites(p) == p = "out.png"

\* Arguments the callers pass.
BlurIntensities == {-1, 2}
BrightnessFactors == {<<2, 1>>}
ContrastFactors == {<<1, 2>>}
Angles == {90, 180, 270, 45}
Directions == {"horizontal", "Vertical", "diagonal"}
ResizeArgs == {<<1, 2>>, <<0, 1>>, <<2, -1>>}

(***************************************************************************)
(* The OpenCV and numpy operators the methods call, on pixel buffers.      *)
(***************************************************************************)
\* cv2.cvtColor(_, COLOR_RGB2GRAY) on 8-bit samples (fixed point, 14 bits)
\* followed by cv2.cvtColor(_, COLOR_GRAY2RGB)
Luma(p) == (p[1] * 4899 + p[2] * 9617 + p[3] * 1868 + 8192) \div 16384

GrayRGB(img) ==
    [i \in 1..Rows(img) |->
        [j \in 1..Cols(img) |->
            LET y == Luma(img[i][j]) IN <<y, y, y>>]]

\* max(1, intensity if intensity % 2 == 1 else intensity + 1)
\* The kernel side without the max(1, ...) around it
BlurKernelUnclamped(intensity) ==
    IF intensity % 2 = 1 THEN intensity ELSE intensity + 1

BlurKernel(intensity) ==
    Max(1, IF intensity % 2 = 1 THEN intensity ELSE intensity + 1)

\* BORDER_REFLECT_101 on a 1-based index
Reflect101(i, n) ==
    IF n = 1 THEN 1
    ELSE IF i < 1 THEN 2 - i
    ELSE IF i > n THEN 2 * n - i
    ELSE i

Kernel3(d) == IF d = 0 THEN 2 ELSE 1

\* cv2.GaussianBlur(img, (k, k), 0) for k in {1, 3}: k = 1 copies, k = 3 is
\* the separable kernel [1 2 1] / 4 rounded once at the end.  A buffer
\* whose pixels are all the same comes back unchanged for every odd k, as
\* it does here, the kernel being normalised.
GaussianBlur(img, k) ==
    IF k = 1 THEN img
    ELSE [i \in 1..Rows(img) |->
            [j \in 1..Cols(img) |->
                [c \in 1..3 |->
                    LET W(di, dj) ==
                            Kernel3(di) * Kernel3(dj)
                            * img[Reflect101(i + di, Rows(img))]
                                 [Reflect101(j + dj, Cols(img))][c]
                        s == W(-1, -1) + W(-1, 0) + W(-1, 1)
                           + W(0, -1) + W(0, 0) + W(0, 1)
                           + W(1, -1) + W(1, 0) + W(1, 1)
                    IN (s + 8) \div 16]]]

\* Whether every pixel of the buffer is the same
Uniform(img) ==
    \A i \in 1..Rows(img) : \A j \in 1..Cols(img) : img[i][j] = img[1][1]

\* cv2.Canny on the luminance followed by COLOR_GRAY2RGB: a map of the same
\* shape whose samples are 0 or 255.  A buffer without any gradient has no
\* edge; for the others the map is left open (every 0/255 map is allowed).
EdgeMaps(img) ==
    IF Uniform(GrayRGB(img))
    THEN {[i \in 1..Rows(img) |-> [j \in 1..Cols(img) |-> <<0, 0, 0>>]]}
    ELSE {[i \in 1..Rows(img) |->
              [j \in 1..Cols(img) |-> <<m[i][j], m[i][j], m[i][j]>>]] :
          m \in [1..Rows(img) -> [1..Cols(img) -> {0, 255}]]}

\* RGB -> HSV, V scaled by factor = f[1] / f[2], clipped to 255 and
\* truncated by astype(uint8), HSV -> RGB: hue and saturation are kept, so
\* every sample is scaled by the ratio of the new to the old maximum.
Brightness(img, f) ==
    [i \in 1..Rows(img) |->
        [j \in 1..Cols(img) |->
            LET p == img[i][j]
                v == Max(p[1], Max(p[2], p[3]))
                v2 == Min(255, (v * f[1]) \div f[2])
            IN [c \in 1..3 |->
                   IF v = 0 THEN 0 ELSE (2 * p[c] * v2 + v) \div (2 * v)]]]

\* Sum of channel c over the first k pixels in row-major order
RECURSIVE ChannelSum(_, _, _)
ChannelSum(img, c, k) ==
    IF k = 0 THEN 0
    ELSE img[((k - 1) \div Cols(img)) + 1][((k - 1) % Cols(img)) + 1][c]
         + ChannelSum(img, c, k - 1)

\* (img - mean) * factor + mean per channel, np.clip to [0, 255] and
\* astype(uint8), with factor = f[1] / f[2]
Contrast(img, f) ==
    LET n == Rows(img) * Cols(img) IN
    [i \in 1..Rows(img) |->
        [j \in 1..Cols(img) |->
            [c \in 1..3 |->
                LET s == ChannelSum(img, c, n)
                    x == (img[i][j][c] * n - s) * f[1] + s * f[2]
                IN IF x < 0 THEN 0 ELSE Min(255, x \div (n * f[2]))]]]

\* cv2.rotate with ROTATE_90_COUNTERCLOCKWISE, ROTATE_180, ROTATE_90_CLOCKWISE
\* rotate_image(90) turning to the right: cv2.ROTATE_90_CLOCKWISE
Rotate90CCWTurnsRight(img) ==
    [i \in 1..Cols(img) |-> [j \in 1..Rows(img) |-> img[Rows(img) + 1 - j][i]]]

Rotate90CCW(img) ==
    [i \in 1..Cols(img) |-> [j \in 1..Rows(img) |-> img[j][Cols(img) + 1 - i]]]

Rotate180(img) ==
    [i \in 1..Rows(img) |->
        [j \in 1..Cols(img) |-> img[Rows(img) + 1 - i][Cols(img) + 1 - j]]]

Rotate90CW(img) ==
    [i \in 1..Cols(img) |-> [j \in 1..Rows(img) |-> img[Rows(img) + 1 - j][i]]]

\* cv2.flip(img, 1) mirrors the columns, cv2.flip(img, 0) the rows
Flip(img, code) ==
    IF code = 1
    THEN [i \in 1..Rows(img) |->
             [j \in 1..Cols(img) |-> img[i][Cols(img) + 1 - j]]]
    ELSE [i \in 1..Rows(img) |->
             [j \in 1..Cols(img) |-> img[Rows(img) + 1 - i][j]]]

\* str.lower() on the directions the callers pass
Lower(d) == IF d = "Vertical" THEN "vertical" ELSE d

\* cv2.resize(img, (width, height)) rejects an empty size with cv2.error
ResizeRaises(width, height) == width <= 0 \/ height <= 0

\* Source taps of destination index d (1-based) of a bilinear axis that maps
\* sn samples onto dn: the two source indices and the weight of the second
\* out of 2048 (INTER_LINEAR, pixel centres aligned, taps clamped).
Taps(d, dn, sn) ==
    LET num == (2 * d - 1) * sn - dn
        s0 == num \div (2 * dn)
        rem == num - s0 * 2 * dn
    IN IF s0 < 0 THEN [i0 |-> 1, i1 |-> 1, a |-> 0]
       ELSE IF s0 >= sn - 1 THEN [i0 |-> sn, i1 |-> sn, a |-> 0]
       ELSE [i0 |-> s0 + 1, i1 |-> s0 + 2,
             a |-> (rem * 4096 + 2 * dn) \div (4 * dn)]

\* cv2.resize(img, (width, height)) with the default INTER_LINEAR
Resize(img, width, height) ==
    [i \in 1..height |->
        [j \in 1..width |->
            [c \in 1..3 |->
                LET ty == Taps(i, height, Rows(img))
                    tx == Taps(j, width, Cols(img))
                    H(r) == img[r][tx.i0][c] * (2048 - tx.a)
                            + img[r][tx.i1][c] * tx.a
                IN ((((2048 - ty.a) * (H(ty.i0) \div 16)) \div 65536)
                    + ((ty.a * (H(ty.i1) \div 16)) \div 65536) + 2) \div 4]]]

(***************************************************************************)
(* State.                                                                  *)
(***************************************************************************)
VARIABLES
    original_image,   \* self.original_image
    current_image,    \* self.current_image
    image_path,       \* self.image_path
    history,          \* self.history
    history_index,    \* self.history_index (0-based, -1 when empty)
    op,               \* the method called last
    args,             \* its arguments: <<string, integer, integer>>
    result,           \* what it returned: "True", "False", or "raised"
    wrote,            \* whether it wrote a file
    scn,              \* where the calls made so far stand in a scenario
    loadBuf,          \* current_image right after the last successful load
    editedBuf,        \* current_image right after the last successful edit
                      \* of the scenario under way (None outside of one)
    pending,          \* the history entries that were ahead of the cursor
                      \* when the last successful load_image was called
                      \* (0 once anything but an undo or redo followed it)
    everLoaded,       \* whether a load_image has succeeded in this session
    alias,            \* the pairs of buffer holders that share one array
    e2e,              \* how far the calls follow the black-image walk-through
    ksize,            \* the kernel side the last apply_blur gave cv2.GaussianBlur
    undone            \* what was current before the undo just made, if it succeeded

core == <<original_image, current_image, image_path, history, history_index>>
vars == <<original_image, current_image, image_path, history, history_index,
          op, args, result, wrote, scn, loadBuf, editedBuf, pending,
          everLoaded, alias, e2e, ksize, undone>>

NoArgs == <<"", 0, 0>>

(***************************************************************************)
(* The scenario the calls made so far form.  ph is                         *)
(*   "loaded"      right after a successful load_image                     *)
(*   "loadprobe"   a successful load_image, then one undo or redo          *)
(*   "edits"       load, then n >= 1 successful edits                      *)
(*   "undos"       ... then u >= 1 calls of undo, u <= n                   *)
(*   "redos"       ... with u = n, then r >= 1 calls of redo, r <= n       *)
(*   "branch"      n edits, one undo, one more successful edit, then any   *)
(*                 number of calls of redo                                 *)
(*   "reset"       right after a successful reset_image (n, u and r are    *)
(*                 those of the scenario it ended)                         *)
(*   "resetprobe"  a successful reset_image, then one undo or redo         *)
(*   "other"       anything else                                           *)
(***************************************************************************)
Other == [ph |-> "other", n |-> 0, u |-> 0, r |-> 0]

ScnStep(kind) ==
    CASE kind = "load" -> [ph |-> "loaded", n |-> 0, u |-> 0, r |-> 0]
      [] kind = "reset" -> [scn EXCEPT !.ph = "reset"]
      [] kind = "edit" ->
            IF scn.ph \in {"loaded", "edits"}
            THEN [ph |-> "edits", n |-> scn.n + 1, u |-> 0, r |-> 0]
            ELSE IF scn.ph = "undos" /\ scn.u = 1
            THEN [scn EXCEPT !.ph = "branch"]
            ELSE Other
      [] kind = "undo" ->
            IF scn.ph \in {"edits", "undos"} /\ scn.u < scn.n
            THEN [scn EXCEPT !.ph = "undos", !.u = scn.u + 1]
            ELSE IF scn.ph = "reset"
            THEN [scn EXCEPT !.ph = "resetprobe"]
            ELSE IF scn.ph = "loaded"
            THEN [scn EXCEPT !.ph = "loadprobe"]
            ELSE Other
      [] kind = "redo" ->
            IF \/ scn.ph = "undos" /\ scn.u = scn.n
               \/ scn.ph = "redos" /\ scn.r < scn.n
            THEN [scn EXCEPT !.ph = "redos", !.r = scn.r + 1]
            ELSE IF scn.ph = "branch"
            THEN scn
            ELSE IF scn.ph = "reset"
            THEN [scn EXCEPT !.ph = "resetprobe"]
            ELSE IF scn.ph = "loaded"
            THEN [scn EXCEPT !.ph = "loadprobe"]
            ELSE Other
      [] OTHER -> Other

(***************************************************************************)
(* Storage.  Buffers are values here, so which holders refer to one and    *)
(* the same numpy array is kept apart: alias is the set of pairs of        *)
(* holders that share an array.  A holder is the original, the current, a  *)
(* slot of the history (by its 0-based index) or the array the caller got  *)
(* from get_image.  copy.deepcopy and every cv2 call return a new array.   *)
(***************************************************************************)
OriginalRef == <<"original", 0>>
CurrentRef == <<"current", 0>>
CallerRef == <<"caller", 0>>
SlotRef(k) == <<"history", k>>

\* The pairs left when the holders in refs are assigned new arrays
Unshare(al, refs) == {p \in al : p \cap refs = {}}

\* The pairs left when the history is cut to its first n slots
KeepSlots(al, n) ==
    {p \in al : \A h \in p : h[1] = "history" => h[2] < n}

\* The walk-through: load black.png (1), adjust_brightness(2.0) (2),
\* convert_grayscale (3), undo (4), undo (5); any other call leaves it (0).
E2EStep(o, a, res) ==
    CASE o = "load_image" /\ a[1] = "black.png" /\ res = "True" -> 1
      [] e2e = 1 /\ o = "adjust_brightness" /\ a = <<"", 2, 1>> /\ res = "True" -> 2
      [] e2e = 2 /\ o = "convert_grayscale" /\ res = "True" -> 3
      [] e2e = 3 /\ o = "undo" -> 4
      [] e2e = 4 /\ o = "undo" -> 5
      [] OTHER -> 0

\* One call: the fields it leaves behind and what it returned.
Call(o, a, res, kind, orig, cur, path, hist, idx, w, al) ==
    /\ original_image' = orig
    /\ current_image' = cur
    /\ image_path' = path
    /\ history' = hist
    /\ history_index' = idx
    /\ op' = o
    /\ args' = a
    /\ result' = res
    /\ wrote' = w
    /\ scn' = ScnStep(kind)
    /\ loadBuf' = IF kind = "load" THEN cur ELSE loadBuf
    /\ editedBuf' = CASE kind = "edit" -> cur
                     [] ScnStep(kind).ph \in {"loaded", "other"} ->
                            IF kind = "load" THEN cur ELSE None
                     [] OTHER -> editedBuf
    /\ pending' = CASE kind = "load" -> Len(history) - 1 - history_index
                   [] ScnStep(kind).ph = "loadprobe" -> pending
                   [] OTHER -> 0
    /\ everLoaded' = (everLoaded \/ kind = "load")
    /\ alias' = al
    /\ e2e' = E2EStep(o, a, res)
    /\ ksize' = IF o = "apply_blur" /\ res = "True" THEN BlurKernel(a[2]) ELSE 0
    /\ undone' = IF o = "undo" /\ res = "True" THEN current_image ELSE None

\* A call that returns res and assigns nothing.
Return(o, a, res, kind) ==
    Call(o, a, res, kind, original_image, current_image, image_path,
         history, history_index, FALSE,
         alias)

(***************************************************************************)
(* __init__: the fields after construction, with or without a path.        *)
(***************************************************************************)
Init ==
    \E p \in {NoPath} \cup LoadPaths :
        LET image == IF p = NoPath THEN None ELSE Decode(p) IN
        /\ original_image = image
        /\ current_image = image
        /\ image_path = p
        /\ history = <<>>
        /\ history_index = -1
        /\ op = "__init__"
        /\ args = <<p, 0, 0>>
        /\ result = "none"
        /\ wrote = FALSE
        /\ scn = IF image = None THEN Other
                 ELSE [ph |-> "loaded", n |-> 0, u |-> 0, r |-> 0]
        /\ loadBuf = image
        /\ editedBuf = image
        /\ pending = 0
        /\ everLoaded = (image # None)
        /\ alias = {}
        /\ e2e = IF p = "black.png" THEN 1 ELSE 0
        /\ ksize = 0
        /\ undone = None

(***************************************************************************)
(* load_image, save_image                                                  *)
(***************************************************************************)
\* load_image as it would be if it cleared the session before decoding
LoadImageClearsFirst(p) ==
    LET image == Decode(p) IN
    IF image = None
    THEN Call("load_image", <<p, 0, 0>>, "False", "other",
              original_image, current_image, image_path, <<>>, -1, FALSE,
              KeepSlots(alias, 0))
    ELSE Call("load_image", <<p, 0, 0>>, "True", "load",
              image, image, p, <<>>, -1, FALSE,
              {})

\* load_image as it would be if it assigned the fields before looking at
\* what cv2.imread returned
LoadImageAssignsFirst(p) ==
    LET image == Decode(p) IN
    IF image = None
    THEN Call("load_image", <<p, 0, 0>>, "False", "other",
              None, None, image_path, history, history_index, FALSE,
              Unshare(alias, {OriginalRef, CurrentRef}))
    ELSE Call("load_image", <<p, 0, 0>>, "True", "load",
              image, image, p, <<>>, -1, FALSE,
              {})

\* load_image as it would be if it left the history and cursor alone
LoadImageKeepsHistory(p) ==
    LET image == Decode(p) IN
    IF image = None
    THEN Return("load_image", <<p, 0, 0>>, "False", "other")
    ELSE Call("load_image", <<p, 0, 0>>, "True", "load",
              image, image, p, history, history_index, FALSE,
              Unshare(alias, {OriginalRef, CurrentRef}))

LoadImage(p) ==
    LET image == Decode(p) IN
    IF image = None
    THEN Return("load_image", <<p, 0, 0>>, "False", "other")
    ELSE Call("load_image", <<p, 0, 0>>, "True", "load",
              image, image, p, <<>>, -1, FALSE,
              {})

SaveImage(p) ==
    IF current_image = None
    THEN Return("save_image", <<p, 0, 0>>, "False", "other")
    ELSE IF ImwriteRaises(p)
    THEN Return("save_image", <<p, 0, 0>>, "False", "other")
    ELSE Call("save_image", <<p, 0, 0>>, "True", "other",
              original_image, current_image, image_path,
              history, history_index, ImwriteWrites(p),
              alias)

(***************************************************************************)
(* _save_to_history, undo, redo                                            *)
(***************************************************************************)
\* lst[:k]
PyPrefix(lst, k) ==
    IF k >= 0 THEN SubSeq(lst, 1, Min(k, Len(lst)))
    ELSE SubSeq(lst, 1, Max(0, Len(lst) + k))

\* _save_to_history without the step of the cursor
SaveToHistoryNoAdvance ==
    [history |-> Append(PyPrefix(history, history_index + 1), current_image),
     history_index |-> history_index,
     alias |-> KeepSlots(alias, history_index + 1)]

\* _save_to_history as it would be without the slice that drops the
\* entries after the cursor
SaveToHistoryKeepsFuture ==
    [history |-> Append(history, current_image),
     history_index |-> history_index + 1,
     alias |-> alias]

\* The history and cursor that _save_to_history leaves
SaveToHistory ==
    [history |-> Append(PyPrefix(history, history_index + 1), current_image),
     history_index |-> history_index + 1,
     alias |-> KeepSlots(alias, history_index + 1)]

\* The model explores a push only while the history stays within MaxHist
PushInBounds == Len(SaveToHistory.history) <= MaxHist

\* undo as it would be if it tested the list instead of the cursor
UndoTestsList ==
    IF Len(history) > 0
    THEN Call("undo", NoArgs, "True", "undo", original_image,
              IF history_index > 0
              THEN history[(history_index - 1) + 1] ELSE current_image,
              image_path, history, history_index - 1, FALSE,
              Unshare(alias, {CurrentRef}))
    ELSE Return("undo", NoArgs, "False", "undo")

\* Undo that also drops the snapshots it steps back over
UndoTruncates ==
    IF history_index > 0
    THEN Call("undo", NoArgs, "True", "undo",
              original_image, history[(history_index - 1) + 1], image_path,
              PyPrefix(history, history_index), history_index - 1, FALSE,
              KeepSlots(Unshare(alias, {CurrentRef}), history_index))
    ELSE Return("undo", NoArgs, "False", "undo")

\* Undo that needs two snapshots below the cursor: history_index > 1
UndoFromOne ==
    IF history_index > 1
    THEN Call("undo", NoArgs, "True", "undo",
              original_image, history[(history_index - 1) + 1], image_path,
              history, history_index - 1, FALSE,
              Unshare(alias, {CurrentRef}))
    ELSE Return("undo", NoArgs, "False", "undo")

\* Undo that assigns the snapshot itself instead of a deep copy of it
UndoNoCopy ==
    IF history_index > 0
    THEN Call("undo", NoArgs, "True", "undo",
              original_image, history[(history_index - 1) + 1], image_path,
              history, history_index - 1, FALSE,
              Unshare(alias, {CurrentRef})
                  \cup {{CurrentRef, SlotRef(history_index - 1)}})
    ELSE Return("undo", NoArgs, "False", "undo")

Undo ==
    IF history_index > 0
    THEN Call("undo", NoArgs, "True", "undo",
              original_image, history[(history_index - 1) + 1], image_path,
              history, history_index - 1, FALSE,
              Unshare(alias, {CurrentRef}))
    ELSE Return("undo", NoArgs, "False", "undo")

Redo ==
    IF history_index < Len(history) - 1
    THEN Call("redo", NoArgs, "True", "redo",
              original_image, history[(history_index + 1) + 1], image_path,
              history, history_index + 1, FALSE,
              Unshare(alias, {CurrentRef}))
    ELSE Return("redo", NoArgs, "False", "redo")

(***************************************************************************)
(* The operators                                                           *)
(***************************************************************************)
\* An operator that pushed the history and then replaced current by img
Edited(o, a, img) ==
    /\ PushInBounds
    /\ Call(o, a, "True", "edit", original_image, img, image_path,
            SaveToHistory.history, SaveToHistory.history_index, FALSE,
            Unshare(SaveToHistory.alias, {CurrentRef}))

\* An operator that pushed the history and then gave up with res
Abandoned(o, a, res) ==
    /\ PushInBounds
    /\ Call(o, a, res, "other", original_image, current_image, image_path,
            SaveToHistory.history, SaveToHistory.history_index, FALSE,
            SaveToHistory.alias)

ConvertGrayscale ==
    IF current_image = None
    THEN Return("convert_grayscale", NoArgs, "False", "other")
    ELSE Edited("convert_grayscale", NoArgs, GrayRGB(current_image))

ApplyBlur(intensity) ==
    IF current_image = None
    THEN Return("apply_blur", <<"", intensity, 0>>, "False", "other")
    ELSE Edited("apply_blur", <<"", intensity, 0>>,
                GaussianBlur(current_image, BlurKernel(intensity)))

DetectEdges ==
    IF current_image = None
    THEN Return("detect_edges", NoArgs, "False", "other")
    ELSE \E edges \in EdgeMaps(current_image) :
            Edited("detect_edges", NoArgs, edges)

AdjustBrightness(f) ==
    IF current_image = None
    THEN Return("adjust_brightness", <<"", f[1], f[2]>>, "False", "other")
    ELSE Edited("adjust_brightness", <<"", f[1], f[2]>>,
                Brightness(current_image, f))

AdjustContrast(f) ==
    IF current_image = None
    THEN Return("adjust_contrast", <<"", f[1], f[2]>>, "False", "other")
    ELSE Edited("adjust_contrast", <<"", f[1], f[2]>>,
                Contrast(current_image, f))

RotateImage(angle) ==
    IF current_image = None
    THEN Return("rotate_image", <<"", angle, 0>>, "False", "other")
    ELSE IF angle = 90
    THEN Edited("rotate_image", <<"", angle, 0>>, Rotate90CCW(current_image))
    ELSE IF angle = 180
    THEN Edited("rotate_image", <<"", angle, 0>>, Rotate180(current_image))
    ELSE IF angle = 270
    THEN Edited("rotate_image", <<"", angle, 0>>, Rotate90CW(current_image))
    ELSE Abandoned("rotate_image", <<"", angle, 0>>, "False")

FlipImage(direction) ==
    IF current_image = None
    THEN Return("flip_image", <<direction, 0, 0>>, "False", "other")
    ELSE IF Lower(direction) = "horizontal"
    THEN Edited("flip_image", <<direction, 0, 0>>, Flip(current_image, 1))
    ELSE IF Lower(direction) = "vertical"
    THEN Edited("flip_image", <<direction, 0, 0>>, Flip(current_image, 0))
    ELSE Abandoned("flip_image", <<direction, 0, 0>>, "False")

ResizeImage(width, height) ==
    IF current_image = None
    THEN Return("resize_image", <<"", width, height>>, "False", "other")
    ELSE IF ResizeRaises(width, height)
    THEN Abandoned("resize_image", <<"", width, height>>, "raised")
    ELSE Edited("resize_image", <<"", width, height>>,
                Resize(current_image, width, height))

\* ControlPanel.resize_dialog.apply_resize: the dialog's Apply button
ApplyResize(width, height) ==
    IF width > 0 /\ height > 0
    THEN ResizeImage(width, height)
    ELSE Return("apply_resize", <<"", width, height>>, "invalid", "other")

\* reset_image as it would be if it kept the history
ResetImageKeepsHistory ==
    IF original_image = None
    THEN Return("reset_image", NoArgs, "False", "other")
    ELSE Call("reset_image", NoArgs, "True", "reset", original_image,
              original_image, image_path, history, history_index, FALSE,
              Unshare(alias, {CurrentRef}))

\* reset_image as it would be with the assignment turned around
ResetImageOverwritesOriginal ==
    IF original_image = None
    THEN Return("reset_image", NoArgs, "False", "other")
    ELSE Call("reset_image", NoArgs, "True", "reset",
              current_image, current_image, image_path, <<>>, -1, FALSE,
              Unshare(KeepSlots(alias, 0), {OriginalRef}))

\* reset_image as it would be without the test for a loaded image
ResetImageUnchecked ==
    Call("reset_image", NoArgs, "True", "reset",
         original_image, original_image, image_path, <<>>, -1, FALSE,
         KeepSlots(Unshare(alias, {CurrentRef}), 0))

ResetImage ==
    IF original_image = None
    THEN Return("reset_image", NoArgs, "False", "other")
    ELSE Call("reset_image", NoArgs, "True", "reset",
              original_image, original_image, image_path, <<>>, -1, FALSE,
              KeepSlots(Unshare(alias, {CurrentRef}), 0))

\* get_image_dimensions with the test for an unset current turned around
GetImageDimensionsInverted(cur) ==
    IF cur # None THEN <<0, 0>> ELSE <<Len(cur[1]), Len(cur)>>

\* get_image_dimensions with an unset current answered by shape
GetImageDimensionsByShape(cur) ==
    IF cur = None THEN <<0, 0>> ELSE <<Len(cur), Len(cur[1])>>

\* get_image_dimensions: (shape[1], shape[0]), or (0, 0) without an image
GetImageDimensions(cur) ==
    IF cur = None THEN <<0, 0>> ELSE <<Len(cur[1]), Len(cur)>>

(***************************************************************************)
(* The caller.  get_image hands out self.current_image; the GUI passes it  *)
(* on to Image.fromarray.  A caller that writes into the array it was      *)
(* handed writes into every holder that shares that array.                 *)
(***************************************************************************)
\* The holders that share the array held by h
SharedWith(al, h) == {g \in UNION al : {g, h} \in al}

GetImage ==
    Call("get_image", NoArgs, "returned", "other",
         original_image, current_image, image_path, history, history_index,
         FALSE,
         IF current_image = None
         THEN Unshare(alias, {CallerRef})
         ELSE Unshare(alias, {CallerRef})
                  \cup {{CallerRef, h} :
                          h \in {CurrentRef}
                                \cup (SharedWith(alias, CurrentRef) \ {CallerRef})})

\* A call of get_image_dimensions: it reads current and returns a pair
GetImageDimensionsCall ==
    Return("get_image_dimensions", NoArgs, "returned", "other")

\* The pixel the caller stores at [0, 0] of the array it holds
CallerPixel == <<0, 0, 0>>

WrittenTo(img) == [img EXCEPT ![1][1] = CallerPixel]

Seen(h, img) ==
    IF {CallerRef, h} \in alias THEN WrittenTo(img) ELSE img

CallerWrites ==
    /\ \E p \in alias : CallerRef \in p
    /\ Call("caller_write", NoArgs, "none", "other",
            Seen(OriginalRef, original_image), Seen(CurrentRef, current_image),
            image_path,
            [k \in 1..Len(history) |-> Seen(SlotRef(k - 1), history[k])],
            history_index, FALSE,
            alias)

(***************************************************************************)
(* Specification                                                           *)
(***************************************************************************)
Next ==
    \/ \E p \in LoadPaths : LoadImage(p)
    \/ \E p \in SavePaths : SaveImage(p)
    \/ Undo
    \/ Redo
    \/ ConvertGrayscale
    \/ \E intensity \in BlurIntensities : ApplyBlur(intensity)
    \/ DetectEdges
    \/ \E f \in BrightnessFactors : AdjustBrightness(f)
    \/ \E f \in ContrastFactors : AdjustContrast(f)
    \/ \E angle \in Angles : RotateImage(angle)
    \/ \E direction \in Directions : FlipImage(direction)
    \/ \E wh \in ResizeArgs : ResizeImage(wh[1], wh[2])
    \/ \E wh \in ResizeArgs : ApplyResize(wh[1], wh[2])
    \/ ResetImage

Spec == Init /\ [][Next]_vars

\* The session together with a caller that keeps what get_image returned
NextAlias ==
    \/ Next
    \/ GetImage
    \/ CallerWrites

SpecAlias == Init /\ [][NextAlias]_vars

\* The session together with its two getters
NextGetters ==
    \/ Next
    \/ GetImage
    \/ GetImageDimensionsCall

SpecGetters == Init /\ [][NextGetters]_vars

(***************************************************************************)
(* Runs of one repeated call.  The session starts on any small buffer, as  *)
(* load_image leaves it, and then makes the same rotate_image or           *)
(* flip_image call again and again.                                        *)
(***************************************************************************)
Palette == {<<0, 0, 0>>, <<200, 0, 0>>, <<100, 100, 100>>}

Buffers ==
    UNION {[1..h -> [1..w -> Palette]] : h \in 1..MaxSide, w \in 1..MaxSide}

InitInverse ==
    \E image \in Buffers :
        /\ original_image = image
        /\ current_image = image
        /\ image_path = "drawn.png"
        /\ history = <<>>
        /\ history_index = -1
        /\ op = "load_image"
        /\ args = <<"drawn.png", 0, 0>>
        /\ result = "True"
        /\ wrote = FALSE
        /\ scn = [ph |-> "loaded", n |-> 0, u |-> 0, r |-> 0]
        /\ loadBuf = image
        /\ editedBuf = image
        /\ pending = 0
        /\ everLoaded = TRUE
        /\ alias = {}
        /\ e2e = 0
        /\ ksize = 0
        /\ undone = None

\* The call o(a), made first after the load or right after the same call
Again(o, a, img) ==
    /\ scn.n < MaxApply
    /\ scn.ph = "loaded" \/ (op = o /\ args = a)
    /\ Call(o, a, "True", "edit", original_image, img, image_path,
            SaveToHistory.history, SaveToHistory.history_index, FALSE,
            Unshare(SaveToHistory.alias, {CurrentRef}))

RotateAgain(angle) ==
    Again("rotate_image", <<"", angle, 0>>,
          IF angle = 90 THEN Rotate90CCW(current_image)
                        ELSE Rotate180(current_image))

FlipAgain(direction) ==
    Again("flip_image", <<direction, 0, 0>>, Flip(current_image, 1))

NextInverse ==
    \/ \E angle \in {90, 180} : RotateAgain(angle)
    \/ \E direction \in {"horizontal"} : FlipAgain(direction)

SpecInverse == InitInverse /\ [][NextInverse]_vars

(***************************************************************************)
(* Runs of apply_blur.  The session starts on any small buffer of one      *)
(* colour and is blurred with every intensity of the range.                *)
(***************************************************************************)
Intensities == (-MaxIntensity)..MaxIntensity

InitBlur ==
    \E image \in {b \in Buffers : Uniform(b)} :
        /\ original_image = image
        /\ current_image = image
        /\ image_path = "drawn.png"
        /\ history = <<>>
        /\ history_index = -1
        /\ op = "load_image"
        /\ args = <<"drawn.png", 0, 0>>
        /\ result = "True"
        /\ wrote = FALSE
        /\ scn = [ph |-> "loaded", n |-> 0, u |-> 0, r |-> 0]
        /\ loadBuf = image
        /\ editedBuf = image
        /\ pending = 0
        /\ everLoaded = TRUE
        /\ alias = {}
        /\ e2e = 0
        /\ ksize = 0
        /\ undone = None

NextBlur == \E intensity \in Intensities : ApplyBlur(intensity)

SpecBlur == InitBlur /\ [][NextBlur]_vars

TypeOK ==
    /\ history_index \in -1..MaxHist
    /\ Len(history) <= MaxHist
    /\ result \in {"none", "True", "False", "raised", "invalid", "returned"}

(***************************************************************************)
(* Properties                                                              *)
(***************************************************************************)
OperatorNames ==
    {"convert_grayscale", "apply_blur", "detect_edges", "adjust_brightness",
     "adjust_contrast", "rotate_image", "flip_image", "resize_image"}

\* C1: after a successful load and N >= 1 successful edits, N calls of undo
\* leave current equal to the buffer that was current right after the load.
C1_UndoNRestoresLoad ==
    (scn.ph = "undos" /\ scn.u = scn.n) => current_image = loadBuf

\* C2: after N >= 1 successful edits and N calls of undo, N calls of redo
\* leave current equal to the buffer that was current after the N edits.
C2_RedoNRestoresEdits ==
    (scn.ph = "redos" /\ scn.r = scn.n) => current_image = editedBuf

\* C3: a call that reports failure leaves original, current, the image
\* path, the history and the cursor as they were.
C3_FailureChangesNothing ==
    [][result' \in {"False", "raised"} => UNCHANGED core]_vars

\* C4: with an image loaded, rotate_image with an angle outside
\* {90, 180, 270} reports failure and changes neither current nor the
\* length of the history nor the cursor.
C4_BadAngleChangesNothing ==
    [][(current_image # None /\ op' = "rotate_image"
            /\ args'[2] \notin {90, 180, 270})
        => (/\ result' = "False"
            /\ current_image' = current_image
            /\ Len(history') = Len(history)
            /\ history_index' = history_index)]_vars

\* C5: with an image loaded, resize_image with width <= 0 or height <= 0
\* reports failure and leaves current, the history and the cursor unchanged.
C5_BadSizeChangesNothing ==
    [][(current_image # None /\ op' = "resize_image"
            /\ (args'[2] <= 0 \/ args'[3] <= 0))
        => (/\ result' \in {"False", "raised"}
            /\ UNCHANGED <<current_image, history, history_index>>)]_vars

\* C6: after N >= 1 successful edits, one undo and one new successful edit,
\* every call of redo fails and changes nothing, so no buffer that was ahead
\* of the cursor before the new edit is reached again.
C6_BranchDiscard ==
    [][(scn.ph = "branch" /\ op' = "redo")
        => (result' = "False" /\ UNCHANGED core)]_vars

C6_Witness ==
    /\ scn.ph = "branch"
    /\ scn.n >= 2
    /\ op = "redo"
    /\ result = "False"
    /\ current_image # loadBuf

\* C7: on a loaded image reset_image succeeds, makes current equal to the
\* buffer of the most recent successful load and empties the history
\* (cursor -1), and an undo or redo that follows immediately fails.
C7_Reset ==
    /\ (op = "reset_image" /\ loadBuf # None) => result = "True"
    /\ scn.ph \in {"reset", "resetprobe"}
        => (/\ current_image = loadBuf
            /\ history = <<>>
            /\ history_index = -1)
    /\ scn.ph = "resetprobe" => result = "False"

C7_Witness ==
    /\ scn.ph = "resetprobe"
    /\ scn.n >= 2
    /\ scn.u >= 1
    /\ op = "undo"
    /\ editedBuf # loadBuf

\* C8: in every reachable state -1 <= history_index <= len(history) - 1.
C8_CursorInRange ==
    -1 <= history_index /\ history_index <= Len(history) - 1

C8_Witness ==
    /\ op = "undo"
    /\ result = "True"
    /\ history_index = 0
    /\ Len(history) >= 2

\* C9: while no image is loaded every operator, save_image and reset_image
\* report failure, the history stays empty with cursor -1 and current stays
\* absent.
C9_NoImage ==
    current_image = None
        => (/\ history = <<>>
            /\ history_index = -1
            /\ op \in OperatorNames \cup {"save_image", "reset_image"}
                => result = "False")

C9_Witness ==
    /\ current_image = None
    /\ op \in OperatorNames \cup {"save_image", "reset_image"}
    /\ result = "False"
    /\ history = <<>>

\* C10: a load_image whose decode fails reports failure and leaves original,
\* current, the image path, the history and the cursor as they were.
C10_FailedLoad ==
    [][(op' = "load_image" /\ result' = "False") => UNCHANGED core]_vars

C10_Witness ==
    /\ op = "load_image"
    /\ result = "False"
    /\ current_image # None
    /\ history_index >= 0
    /\ history_index < Len(history) - 1

\* C11: a successful load_image, from any prior state, sets original to the
\* decoded buffer, current to an equal copy, the image path to the given
\* path and clears the history (cursor -1), so that an undo or redo right
\* after it fails.
C11_LoadReinitialises ==
    /\ (op = "load_image" /\ result = "True")
        => (/\ original_image = Decode(args[1])
            /\ current_image = original_image
            /\ image_path = args[1]
            /\ history = <<>>
            /\ history_index = -1)
    /\ scn.ph = "loadprobe"
        => (/\ result = "False"
            /\ current_image = original_image
            /\ history = <<>>
            /\ history_index = -1)

C11_Witness ==
    /\ scn.ph = "loadprobe"
    /\ pending >= 1
    /\ op = "redo"
    /\ image_path = "b.png"

\* C12: in every reachable state current is absent if and only if no
\* load_image has succeeded in this session: no edit, rejected edit, undo,
\* redo, reset or failed load makes it absent again or present.
C12_CurrentAbsentIffNeverLoaded ==
    (current_image = None) <=> ~everLoaded

C12_Witness ==
    /\ everLoaded
    /\ current_image # None
    /\ op = "load_image"
    /\ result = "False"
    /\ history # <<>>

\* C13: original is changed only by a successful load_image: every
\* operator, undo, redo, reset_image and save_image leaves it as it was.
C13_OriginalOnlyByLoad ==
    [][original_image' # original_image
        => (op' = "load_image" /\ result' = "True")]_vars

C13_Witness ==
    /\ op = "reset_image"
    /\ result = "True"
    /\ scn.n >= 1
    /\ editedBuf # loadBuf
    /\ original_image = loadBuf

\* C14: in every reachable state no history snapshot shares its array with
\* current, with original or with another snapshot, and original shares its
\* array with nothing: whatever is stored into the history or taken from it
\* by undo, redo or reset is a copy, so a write into the array behind
\* current reaches no snapshot and not original.
C14_NoSharedSnapshot ==
    \A p \in alias :
        /\ OriginalRef \notin p
        /\ \A k \in 0..(MaxHist + 1) : SlotRef(k) \notin p

\* Undo has just handed back a snapshot that redo can still reach
C14_Witness ==
    /\ op = "undo"
    /\ result = "True"
    /\ Len(history) >= 2
    /\ current_image = history[history_index + 1]
    /\ current_image # original_image

\* C15: the array get_image returns is a copy of current: a caller that
\* writes into the array it was handed changes neither current nor original
\* nor any history snapshot of the session.
C15_ReturnedIsCopy ==
    [][op' = "caller_write"
        => (/\ current_image' = current_image
            /\ original_image' = original_image
            /\ history' = history)]_vars

\* C16: save_image returns True only when current was encoded and written
\* to the given path, it returns False for an unwritable destination and for
\* an unsupported extension, and it never changes original, current, the
\* history or the cursor.
C16_SaveReportsTruth ==
    [][op' = "save_image"
        => (/\ result' = "True" => wrote'
            /\ ~ImwriteWrites(args'[1]) => result' = "False"
            /\ UNCHANGED core)]_vars

\* C17: get_image_dimensions is (0,0) without an image and (width, height)
\* of current otherwise, and it follows the calls: a rotation by 90 or 270
\* swaps width and height, a rotation by 180 and a flip keep them, a
\* successful resize to (w, h) makes them (w, h), and a successful undo or
\* redo makes them the dimensions of the snapshot under the cursor.
C17_DimensionsFollow ==
    [][LET before == GetImageDimensions(current_image)
           after == GetImageDimensions(current_image')
           done(o) == op' = o /\ result' = "True"
       IN  /\ current_image' = None => after = <<0, 0>>
           /\ current_image' # None
               => after = <<Cols(current_image'), Rows(current_image')>>
           /\ (done("rotate_image") /\ args'[2] \in {90, 270})
               => after = <<before[2], before[1]>>
           /\ (done("rotate_image") /\ args'[2] = 180) => after = before
           /\ done("flip_image") => after = before
           /\ done("resize_image") => after = <<args'[2], args'[3]>>
           /\ (done("undo") \/ done("redo"))
               => after = GetImageDimensions(history'[history_index' + 1])
      ]_vars

\* A 2 x 1 image turned by 90 degrees, then undone back to 2 x 1
C17_Witness ==
    /\ op = "undo"
    /\ result = "True"
    /\ Len(history) = 2
    /\ GetImageDimensions(history[2]) = <<1, 2>>
    /\ GetImageDimensions(current_image) = <<2, 1>>

\* C18: from any loaded buffer, flip_image('horizontal') twice,
\* rotate_image(90) four times and rotate_image(180) twice each leave
\* current equal to the buffer before the first call, pixel for pixel and
\* in its dimensions; one rotate_image(90) turns counter-clockwise: the top
\* row of the result is the rightmost column of the buffer before.
C18_InversePairs ==
    LET ran(o, a, k) == scn.ph = "edits" /\ op = o /\ args = a /\ scn.n = k
    IN  /\ ran("flip_image", <<"horizontal", 0, 0>>, 2)
            => current_image = loadBuf
        /\ ran("rotate_image", <<"", 90, 0>>, 4) => current_image = loadBuf
        /\ ran("rotate_image", <<"", 180, 0>>, 2) => current_image = loadBuf
        /\ ran("rotate_image", <<"", 90, 0>>, 1)
            => /\ Rows(current_image) = Cols(loadBuf)
               /\ Cols(current_image) = Rows(loadBuf)
               /\ \A i \in 1..Rows(current_image) :
                    \A j \in 1..Cols(current_image) :
                        current_image[i][j] = loadBuf[j][Cols(loadBuf) + 1 - i]

\* Four quarter turns of a 2 x 1 buffer with two different pixels
C18_Witness ==
    /\ scn.ph = "edits"
    /\ op = "rotate_image"
    /\ args = <<"", 90, 0>>
    /\ scn.n = 4
    /\ Len(history) = 4
    /\ Cols(loadBuf) = 2
    /\ Rows(loadBuf) = 1
    /\ loadBuf[1][1] # loadBuf[1][2]
    /\ history[2] # loadBuf
    /\ history[3] # loadBuf

\* C19: after black.png (4 x 4, all black) is loaded, adjust_brightness(2.0)
\* and then convert_grayscale leave the dimensions at (4, 4), and two calls
\* of undo after them leave current equal to the buffer that was loaded.
C19_BlackWalkThrough ==
    /\ e2e \in {2, 3} => GetImageDimensions(current_image) = <<4, 4>>
    /\ e2e = 5 => (/\ current_image = Decode("black.png")
                   /\ current_image = loadBuf)

C19_Witness ==
    /\ e2e = 5
    /\ op = "undo"
    /\ image_path = "black.png"
    /\ Len(history) = 2

\* C20: every operator call that succeeds, started with cursor c and
\* history h, ends with the history h[0..c] followed by one copy of the
\* current of before the call, with the cursor on the new last index, and
\* with current equal to what the operator computes from the old current.
C20_PushThenEdit ==
    [][(op' \in OperatorNames /\ result' = "True")
        => LET a == args'
               cur == current_image
               results ==
                   CASE op' = "convert_grayscale" -> {GrayRGB(cur)}
                     [] op' = "apply_blur" ->
                            {GaussianBlur(cur, BlurKernel(a[2]))}
                     [] op' = "detect_edges" -> EdgeMaps(cur)
                     [] op' = "adjust_brightness" ->
                            {Brightness(cur, <<a[2], a[3]>>)}
                     [] op' = "adjust_contrast" ->
                            {Contrast(cur, <<a[2], a[3]>>)}
                     [] op' = "rotate_image" ->
                            {CASE a[2] = 90 -> Rotate90CCW(cur)
                               [] a[2] = 180 -> Rotate180(cur)
                               [] OTHER -> Rotate90CW(cur)}
                     [] op' = "flip_image" ->
                            {Flip(cur, IF Lower(a[1]) = "horizontal"
                                       THEN 1 ELSE 0)}
                     [] OTHER -> {Resize(cur, a[2], a[3])}
           IN  /\ current_image # None
               /\ history' = Append(SubSeq(history, 1, history_index + 1),
                                    current_image)
               /\ history_index' = Len(history') - 1
               /\ current_image' \in results]_vars

\* An edit made after two edits and one undo: the undone snapshot is gone
C20_Witness ==
    /\ scn.ph = "branch"
    /\ scn.n >= 2
    /\ op \in OperatorNames
    /\ result = "True"
    /\ history_index = Len(history) - 1
    /\ history[Len(history)] = history[Len(history) - 1]
    /\ current_image # history[Len(history)]

\* C21: undo returns True exactly when the cursor is above 0 and redo
\* exactly when the cursor is below the last index; a call that returns
\* True moves the cursor by one and makes current a copy of the snapshot
\* under the new cursor, and a call that returns False leaves current, the
\* history and the cursor as they were.
C21_UndoRedoSteps ==
    [][LET moved(by) ==
               /\ history_index' = history_index + by
               /\ history' = history
               /\ current_image' = history[history_index' + 1]
               /\ \A p \in alias' : CurrentRef \notin p
           kept == UNCHANGED <<current_image, history, history_index>>
       IN  /\ op' = "undo"
               => (/\ result' \in {"True", "False"}
                   /\ result' = "True" <=> history_index > 0
                   /\ IF result' = "True" THEN moved(-1) ELSE kept)
           /\ op' = "redo"
               => (/\ result' \in {"True", "False"}
                   /\ result' = "True" <=> history_index < Len(history) - 1
                   /\ IF result' = "True" THEN moved(1) ELSE kept)
      ]_vars

\* A redo that moved the cursor from 0 to 1 of a history of three
C21_Witness ==
    /\ op = "redo"
    /\ result = "True"
    /\ Len(history) = 3
    /\ history_index = 1
    /\ current_image = history[2]
    /\ current_image # history[1]

\* C22: for every integer intensity given to apply_blur the kernel side
\* handed to cv2.GaussianBlur is odd and at least 1: the intensity itself
\* when that is odd and at least 1, the intensity plus one when it is even
\* and at least 0, and 1 for every negative intensity.
C22_KernelOdd ==
    (op = "apply_blur" /\ result = "True")
        => LET n == args[2] IN
           /\ ksize >= 1
           /\ ksize % 2 = 1
           /\ ksize = IF n % 2 = 1 /\ n >= 1 THEN n
                      ELSE IF n % 2 = 0 /\ n >= 0 THEN n + 1
                      ELSE 1

\* apply_blur(-3): odd and negative, blurred with the 1 x 1 kernel
C22_Witness ==
    /\ op = "apply_blur"
    /\ result = "True"
    /\ args[2] = -3
    /\ ksize = 1
    /\ history # <<>>

\* C23: right after any operator call that succeeded, the first edit after
\* a load or reset included, undo returns True and makes current the
\* buffer that was current just before that call (the snapshot the call
\* stored under the cursor).
C23_UndoAfterEdit ==
    [][(op \in OperatorNames /\ result = "True" /\ op' = "undo")
        => (/\ result' = "True"
            /\ current_image' = history[history_index + 1])]_vars

\* C24: undo and redo are inverse steps: whenever undo has just returned
\* True, a redo called next returns True and makes current exactly the
\* buffer that was current before the undo, so the result of the latest
\* edit is not lost by undoing it.
C24_RedoInvertsUndo ==
    [][(op = "undo" /\ result = "True" /\ op' = "redo")
        => (/\ result' = "True"
            /\ current_image' = undone)]_vars

\* C25: a rejected edit keeps the future that redo can reach: from a state
\* where redo would return True, rotate_image with an angle it does not
\* know or flip_image with a direction it does not know returns False and
\* leaves redo returning True with the same buffer as before the call.
C25_RejectedKeepsRedo ==
    [][(/\ history_index < Len(history) - 1
        /\ \/ op' = "rotate_image" /\ args'[2] \notin {90, 180, 270}
           \/ op' = "flip_image"
              /\ Lower(args'[1]) \notin {"horizontal", "vertical"})
        => (/\ result' = "False"
            /\ history_index' < Len(history') - 1
            /\ history'[(history_index' + 1) + 1]
                   = history[(history_index + 1) + 1])]_vars

\* C26: undo and redo, whether they return True or False, change neither
\* the history (its length and every snapshot in it) nor the image path
\* nor original, only the cursor and current; get_image and
\* get_image_dimensions change no field at all.
C26_Frames ==
    [][/\ op' \in {"undo", "redo"}
           => (/\ history' = history
               /\ image_path' = image_path
               /\ original_image' = original_image)
       /\ op' \in {"get_image", "get_image_dimensions"}
           => UNCHANGED core
      ]_vars

\* get_image called between an undo and the redo that is still possible
C26_Witness ==
    /\ op = "get_image"
    /\ history_index >= 0
    /\ history_index < Len(history) - 1
    /\ {CallerRef, CurrentRef} \in alias
    /\ current_image = history[history_index + 1]

====
